---- MODULE Spec2Model ----
(***************************************************************************)
(* A model of the per-camera direct-lighting pipeline of strolle and of    *)
(* the bevy integration that feeds it: the surface similarity score        *)
(* (strolle-gpu/src/surface.rs), the passes that resample and resolve the  *)
(* reservoirs and draw the result (strolle/src/camera_controller/passes),  *)
(* the resolving kernel (strolle-shaders/src/di_resolving.rs), the         *)
(* extraction systems (bevy-strolle/src/stages/extract.rs) and the         *)
(* material conversion (bevy-strolle/src/material.rs).                     *)
(*                                                                         *)
(* The specifications share the variables:                                 *)
(*   SpecSurface   evaluate_similarity_to applied to a bounded set of      *)
(*                 surface pairs;                                          *)
(*   Spec          the frame pipeline, one action per pass (a dispatch is  *)
(*                 atomic: a barrier separates the passes);                *)
(*   SpecResolve   the same pipeline with the resolving dispatch executed  *)
(*                 wave by wave: the invocations of a wave run in lockstep *)
(*                 (reads, then writes) and the waves interleave freely;   *)
(*   SpecExtract   the meshes, materials and images extraction systems;    *)
(*   SpecInstances the instances extraction system;                        *)
(*   SpecCameras   the cameras extraction system;                          *)
(*   SpecMaterial  into_material and images of StandardMaterial and        *)
(*                 StrolleMaterial.                                        *)
(* f32 values are modelled as exact rationals [n, d] in lowest terms.      *)
(***************************************************************************)
EXTENDS Integers, Sequences, FiniteSets, TLC

VARIABLES
    self_surface,     \* Surface: `self` of evaluate_similarity_to
    other_surface,    \* Surface: `other` of evaluate_similarity_to
    similarity,       \* <<>>, or <<the scores evaluate_similarity_to computed>>
    viewport,         \* camera.viewport.size, <<x, y>>
    frame,            \* camera.frame
    stage,            \* the last pass that completed in this frame
    seed,             \* the frame's random input (candidates, G-buffer)
    gbuffer,          \* direct_gbuffer_d0/d1: pixel -> depth (0 = sky)
    prev_reservoirs,  \* direct_prev_reservoirs: idx -> Vec4
    curr_reservoirs,  \* direct_curr_reservoirs: idx -> Vec4
    next_reservoirs,  \* direct_next_reservoirs: idx -> Vec4
    direct_samples,   \* direct_samples (the kernel's `output`): pixel -> colour
    written,          \* history: buffer -> idx -> frame of the last write (0 = never)
    computed,         \* history: pass -> pixel -> invocations that computed it this frame
    access,           \* history: the bindings the last dispatch used
    position,         \* camera.viewport.position, <<x, y>>
    target_view,      \* the host's target view: pixel -> colour
    inv_pc,           \* SpecResolve: wave -> "ready" | "loaded" | "done"
    inv_local,        \* SpecResolve: wave -> invocation -> the kernel's locals after its reads
    resolve_base,     \* SpecResolve: history: the written buffers as the dispatch found them
    dynamic_images,   \* images: Local<HashSet<Handle<Image>>>
    marked,           \* history: handles marked dynamic with no Removed event since
    panicked,         \* an assertion of an extraction system failed
    extract_in,       \* history: the events and the asset store the last extraction read
    extract_out,      \* <<>>, or <<the resource the last extraction inserted>>
    known,            \* instances: Local<HashSet<Entity>>
    reported,         \* history: entities reported changed and not reported removed since
    instances_in,     \* history: what the two queries of the last extraction matched
    instances_out,    \* <<>>, or <<the ExtractedInstances the last extraction inserted>>
    cameras_world,    \* the main world: entity -> the components the cameras query reads
    cameras_out,      \* the render world: entity -> <<>> or <<ExtractedCamera>>
    material_in,      \* the material into_material is called on
    material_out,     \* <<>>, or <<the st::Material into_material returned>>
    material_images   \* <<>>, or <<the Vec of image handles images returned>>

surfaceVars == <<self_surface, other_surface, similarity>>
bufferVars == <<gbuffer, prev_reservoirs, curr_reservoirs, next_reservoirs, direct_samples>>
drawVars == <<position, target_view>>
pipelineVars ==
    <<viewport, frame, stage, seed, bufferVars, written, computed, access, drawVars>>
resolveVars == <<inv_pc, inv_local, resolve_base>>
assetVars == <<dynamic_images, marked, panicked, extract_in, extract_out>>
instanceVars == <<known, reported, instances_in, instances_out>>
cameraVars == <<cameras_world, cameras_out>>
materialVars == <<material_in, material_out, material_images>>
hostVars == <<assetVars, instanceVars, cameraVars, materialVars>>
vars == <<surfaceVars, pipelineVars, resolveVars, hostVars>>

----------------------------------------------------------------------------
(* Exact rationals standing for f32 values.                                *)

RECURSIVE GCD(_, _)
GCD(x, y) == IF y = 0 THEN x ELSE GCD(y, x % y)

Abs(x) == IF x < 0 THEN -x ELSE x

Rat(n, d) ==
    LET s == IF d < 0 THEN -1 ELSE 1
        g == GCD(Abs(n), Abs(d))
    IN  [n |-> (s * n) \div g, d |-> (s * d) \div g]

RatMul(p, q) == Rat(p.n * q.n, p.d * q.d)
RatDiv(p, q) == Rat(p.n * q.d, p.d * q.n)
RatSub(p, q) == Rat(p.n * q.d - q.n * p.d, p.d * q.d)
RatLeq(p, q) == p.n * q.d <= q.n * p.d
RatLt(p, q) == p.n * q.d < q.n * p.d
RatAbs(p) == [n |-> Abs(p.n), d |-> p.d]
RatMax(p, q) == IF RatLeq(p, q) THEN q ELSE p

Zero == Rat(0, 1)
One == Rat(1, 1)

----------------------------------------------------------------------------
(* strolle-gpu/src/surface.rs                                              *)

\* Bounds of the surfaces evaluate_similarity_to is applied to.
\* A normal <<x, y, z>> stands for (x, y, z) / 10, a depth k for k / 20.
MaxDepth == 24
MaxRoughness == 1

Normals ==
    { <<10, 0, 0>>, <<6, 8, 0>>, <<8, 6, 0>>, <<0, 6, 8>>, <<-10, 0, 0>>,  \* unit length
      <<5, 0, 0>> }                                                          \* not unit length

Surfaces ==
    [normal : Normals,
     depth : {Rat(k, 20) : k \in 0..MaxDepth},
     roughness : 0..MaxRoughness]

Dot(u, v) == Rat(u[1] * v[1] + u[2] * v[2] + u[3] * v[3], 100)

IsUnit(u) == Dot(u, u) = One

is_sky(s) == s.depth = Zero

NormalScoreMinusOne(self, other) ==
    LET dot == RatMax(Dot(self.normal, other.normal), Zero)
    IN  IF RatLeq(dot, Rat(1, 2)) THEN Zero ELSE RatSub(RatMul(Rat(2, 1), dot), One)

normal_score(self, other) ==
    LET dot == RatMax(Dot(self.normal, other.normal), Zero)
    IN  IF RatLeq(dot, Rat(1, 2)) THEN Zero ELSE RatMul(Rat(2, 1), dot)

DepthScoreRelativeOnly(self, other) ==
    LET t == RatAbs(RatSub(self.depth, other.depth))
    IN  IF RatLeq(RatMul(Rat(1, 10), other.depth), t)
        THEN Zero
        ELSE RatSub(One, RatDiv(t, RatMul(Rat(1, 10), other.depth)))

depth_score(self, other) ==
    LET t == RatAbs(RatSub(self.depth, other.depth))
    IN  IF RatLt(self.depth, One)
        THEN RatMax(RatSub(One, t), Zero)
        ELSE IF RatLeq(RatMul(Rat(1, 10), other.depth), t)
             THEN Zero
             ELSE RatSub(One, RatDiv(t, RatMul(Rat(1, 10), other.depth)))

EvaluateSkyOnlyWhenBoth(self, other) ==
    IF is_sky(self) /\ is_sky(other)
    THEN [early |-> TRUE, normal |-> Zero, depth |-> Zero, result |-> Zero]
    ELSE [early |-> FALSE,
          normal |-> normal_score(self, other),
          depth |-> IF is_sky(other) THEN One ELSE depth_score(self, other),
          result |-> RatMul(normal_score(self, other),
                            IF is_sky(other) THEN One ELSE depth_score(self, other))]

\* The scores of one call: the two factors and the value returned. A call that
\* returns early at the sky test computes no factor.
evaluate_similarity_to(self, other) ==
    IF is_sky(self) \/ is_sky(other)
    THEN [early |-> TRUE, normal |-> Zero, depth |-> Zero, result |-> Zero]
    ELSE [early |-> FALSE,
          normal |-> normal_score(self, other),
          depth |-> depth_score(self, other),
          result |-> RatMul(normal_score(self, other), depth_score(self, other))]

----------------------------------------------------------------------------
(* The values the variables of a specification that is not running hold.   *)

Empty == <<>>

SurfaceOff ==
    /\ self_surface = "none"
    /\ other_surface = "none"
    /\ similarity = <<>>

PipelineOff ==
    /\ viewport = <<0, 0>>
    /\ frame = 0
    /\ stage = "off"
    /\ seed = 0
    /\ gbuffer = Empty
    /\ prev_reservoirs = Empty
    /\ curr_reservoirs = Empty
    /\ next_reservoirs = Empty
    /\ direct_samples = Empty
    /\ written = Empty
    /\ computed = Empty
    /\ access = Empty
    /\ position = <<0, 0>>
    /\ target_view = Empty

ResolveOff ==
    /\ inv_pc = Empty
    /\ inv_local = Empty
    /\ resolve_base = Empty

AssetsOff ==
    /\ dynamic_images = {}
    /\ marked = {}
    /\ panicked = FALSE
    /\ extract_in = Empty
    /\ extract_out = Empty

InstancesOff ==
    /\ known = {}
    /\ reported = {}
    /\ instances_in = Empty
    /\ instances_out = Empty

CamerasOff ==
    /\ cameras_world = Empty
    /\ cameras_out = Empty

MaterialOff ==
    /\ material_in = Empty
    /\ material_out = Empty
    /\ material_images = Empty

HostOff == AssetsOff /\ InstancesOff /\ CamerasOff /\ MaterialOff

----------------------------------------------------------------------------
(* SpecSurface: evaluate_similarity_to over every pair of bounded surfaces. *)

InitSurface ==
    /\ self_surface \in Surfaces
    /\ other_surface \in Surfaces
    /\ similarity = <<>>
    /\ PipelineOff
    /\ ResolveOff
    /\ HostOff

Evaluate ==
    /\ similarity = <<>>
    /\ similarity' = <<evaluate_similarity_to(self_surface, other_surface)>>
    /\ UNCHANGED <<self_surface, other_surface, pipelineVars, resolveVars, hostVars>>

NextSurface == Evaluate

SpecSurface == InitSurface /\ [][NextSurface]_vars

Evaluated == similarity # <<>>

Score == similarity[1]

\* The depth of a surface in twentieths, and the dot product of the two normals.
DepthK(s) == (s.depth.n * 20) \div s.depth.d
DepthGap == Abs(DepthK(self_surface) - DepthK(other_surface))
NormalDot == Dot(self_surface.normal, other_surface.normal)
BothHit == DepthK(self_surface) # 0 /\ DepthK(other_surface) # 0
BothUnit == IsUnit(self_surface.normal) /\ IsUnit(other_surface.normal)

\* C6: a surface that is not sky and has a unit-length normal is similar to
\* itself with a score of exactly 1.0.
C6_SelfSimilarityIsOne ==
    (Evaluated /\ BothHit /\ BothUnit /\ self_surface = other_surface)
        => Score.result = One

\* C7: the score is 0.0 whenever either of the two surfaces is sky (depth 0),
\* whatever the normals, the roughness and the other depth are.
C7_SkyScoresZero ==
    (Evaluated /\ (DepthK(self_surface) = 0 \/ DepthK(other_surface) = 0))
        => Score.result.n = 0

\* C7 witness: a sky surface compared with a nearby hit of the same normal.
C7_Witness ==
    /\ Evaluated
    /\ DepthK(self_surface) = 0
    /\ DepthK(other_surface) = 10
    /\ self_surface.normal = other_surface.normal
    /\ IsUnit(self_surface.normal)

\* C8: for surfaces with unit-length normals the score lies in [0.0, 1.0].
C8_ScoreInUnitRange ==
    (Evaluated /\ BothUnit)
        => (RatLeq(Zero, Score.result) /\ RatLeq(Score.result, One))

\* C9: for two surfaces that are not sky, the normal factor is 0 when the dot
\* product of the normals is at or below 0.5 and otherwise lies on the line
\* through (0.5, 1.0) and (1, 2.0); the score is the product of the normal
\* factor and the depth factor, hence 0 whenever either factor is 0.
C9_NormalFactorAndProduct ==
    (Evaluated /\ BothHit) =>
        /\ NormalDot.n * 2 <= NormalDot.d => Score.normal.n = 0
        /\ NormalDot.n * 2 > NormalDot.d =>
              \* 1.0 + (dot - 0.5) * (2.0 - 1.0) / (1 - 0.5)
              Score.normal.n * (2 * NormalDot.d)
                  = Score.normal.d * (2 * NormalDot.d + 2 * (2 * NormalDot.n - NormalDot.d))
        /\ Score.result.n * (Score.normal.d * Score.depth.d)
              = Score.result.d * (Score.normal.n * Score.depth.n)
        /\ (Score.normal.n = 0 \/ Score.depth.n = 0) => Score.result.n = 0

\* C9 witness: normals at a dot product of 0.96 and depths 5% apart, so both
\* factors lie strictly between their extremes.
C9_Witness ==
    /\ Evaluated
    /\ BothHit
    /\ NormalDot = Rat(96, 100)
    /\ DepthK(self_surface) = 21
    /\ DepthK(other_surface) = 20
    /\ Score.result = Rat(96, 100)

\* C10 as claimed: for two surfaces that are not sky, the depth factor is 1
\* when the depth of `self` is below 1.0, whatever the other depth is, and for
\* depths of 1.0 or more it falls linearly from 1 at equal depths to 0 at a
\* difference of 10% of the other depth.
C10_NearDepthFactorIsOne ==
    (Evaluated /\ BothHit) =>
        /\ DepthK(self_surface) < 20 => Score.depth = One
        /\ (DepthK(self_surface) >= 20 /\ 10 * DepthGap >= DepthK(other_surface))
              => Score.depth.n = 0
        /\ (DepthK(self_surface) >= 20 /\ 10 * DepthGap < DepthK(other_surface))
              => Score.depth.n * DepthK(other_surface)
                   = Score.depth.d * (DepthK(other_surface) - 10 * DepthGap)

\* C10 as amended: for two surfaces that are not sky, the depth factor of a
\* `self` depth below 1.0 is max(0, 1 - |depth difference|): 1 at equal depths,
\* falling linearly to 0 at an absolute difference of 1.0; for depths of 1.0 or
\* more it falls linearly from 1 at equal depths to 0 at a difference of 10% of
\* the other depth.
C10_DepthFactor ==
    (Evaluated /\ BothHit) =>
        /\ (DepthK(self_surface) < 20 /\ DepthGap >= 20) => Score.depth.n = 0
        /\ (DepthK(self_surface) < 20 /\ DepthGap < 20)
              => Score.depth.n * 20 = Score.depth.d * (20 - DepthGap)
        /\ (DepthK(self_surface) >= 20 /\ 10 * DepthGap >= DepthK(other_surface))
              => Score.depth.n = 0
        /\ (DepthK(self_surface) >= 20 /\ 10 * DepthGap < DepthK(other_surface))
              => Score.depth.n * DepthK(other_surface)
                   = Score.depth.d * (DepthK(other_surface) - 10 * DepthGap)

\* C10 witness: a depth of 0.5 compared with a depth of 1.0 (factor 0.5).
C10_Witness ==
    /\ Evaluated
    /\ DepthK(self_surface) = 10
    /\ DepthK(other_surface) = 20
    /\ Score.depth = Rat(1, 2)

\* The score with the roles of the two surfaces exchanged.
Exchanged == evaluate_similarity_to(other_surface, self_surface)

\* C21 as claimed: the similarity of `self` to `other` equals the similarity
\* of `other` to `self`, whatever the two surfaces are.
C21_SimilarityIsSymmetric ==
    Evaluated => Score.result = Exchanged.result

\* C21 as amended: the normal factor is the same in both directions, and the
\* score is the same in both directions when either surface is sky, when the
\* two depths are equal, or when both depths are below 1.0; for other depths
\* the depth factor is measured against the depth of `other` (absolutely when
\* the depth of `self` is below 1.0) and the two scores may differ.
C21_SymmetricNormalAndNearDepth ==
    Evaluated =>
        /\ BothHit => Score.normal = Exchanged.normal
        /\ (\/ ~BothHit
            \/ DepthGap = 0
            \/ (DepthK(self_surface) < 20 /\ DepthK(other_surface) < 20))
              => Score.result = Exchanged.result

\* C21 witness: two hits of the same unit normal at depths 0.9 and 0.95, both
\* below 1.0, scoring 1.9 in either direction.
C21_Witness ==
    /\ Evaluated
    /\ self_surface.normal = other_surface.normal
    /\ IsUnit(self_surface.normal)
    /\ DepthK(self_surface) = 18
    /\ DepthK(other_surface) = 19
    /\ Score.result = Rat(19, 10)
    /\ Exchanged.result = Rat(19, 10)

----------------------------------------------------------------------------
(* strolle/src/camera_controller/passes: what each pass binds and the grid *)
(* of workgroups it dispatches.                                             *)

\* Bounds of the pipeline model.
MaxWidth == 16
MaxHeight == 9
MaxFrames == 3
NumLights == 2

\* The age cap of a reservoir (the spec's maximum confidence).
MaxM == 4

\* The seeds a frame draws its candidates and its G-buffer from.
Seeds == {0, 1}

\* Viewport sizes: below one workgroup, a whole number of workgroups, and not.
Viewports == {<<w, h>> : w \in {7, 8, 9, MaxWidth}, h \in {8, MaxHeight}}

Pixels(vp) == {<<x, y>> : x \in 0..(vp[1] - 1), y \in 0..(vp[2] - 1)}

ReservoirBuffers ==
    {"direct_prev_reservoirs", "direct_curr_reservoirs", "direct_next_reservoirs"}

B(buffer, mode) == [buffer |-> buffer, mode |-> mode]

\* The resources the Scene Store owns, by the names the passes bind them under.
SceneStore == {"triangles", "bvh", "materials", "lights", "images", "world"}

RefTracingWritesMaterials ==
    [name |-> "reference_tracing",
     set0 |-> << B("triangles", "readable"), B("bvh", "readable"),
                 B("materials", "writable"), B("images", "atlas") >>,
     set1 |-> << B("camera", "readable"), B("ref_rays", "readable"),
                 B("ref_hits", "writable") >>]

RefTracingPass_new ==
    [name |-> "reference_tracing",
     set0 |-> << B("triangles", "readable"), B("bvh", "readable"),
                 B("materials", "readable"), B("images", "atlas") >>,
     set1 |-> << B("camera", "readable"), B("ref_rays", "readable"),
                 B("ref_hits", "writable") >>]

DirectTemporalResamplingPass_new ==
    [name |-> "direct_temporal_resampling",
     set0 |-> << B("triangles", "readable"), B("bvh", "readable"),
                 B("materials", "readable"), B("lights", "readable"),
                 B("images", "atlas") >>,
     set1 |-> << B("camera", "readable"), B("reprojection_map", "readable"),
                 B("direct_gbuffer_d0", "readable"), B("direct_gbuffer_d1", "readable"),
                 B("direct_candidates", "readable"),
                 B("direct_prev_reservoirs", "readable"),
                 B("direct_curr_reservoirs", "writable") >>]

SpatialResamplesInPlace ==
    [name |-> "direct_spatial_resampling",
     set0 |-> << B("triangles", "readable"), B("bvh", "readable"),
                 B("materials", "readable"), B("lights", "readable"),
                 B("images", "atlas") >>,
     set1 |-> << B("camera", "readable"), B("surface_map_curr", "readable"),
                 B("direct_gbuffer_d0", "readable"), B("direct_gbuffer_d1", "readable"),
                 B("direct_curr_reservoirs", "readable"),
                 B("direct_curr_reservoirs", "writable") >>]

DirectSpatialResamplingPass_new ==
    [name |-> "direct_spatial_resampling",
     set0 |-> << B("triangles", "readable"), B("bvh", "readable"),
                 B("materials", "readable"), B("lights", "readable"),
                 B("images", "atlas") >>,
     set1 |-> << B("camera", "readable"), B("surface_map_curr", "readable"),
                 B("direct_gbuffer_d0", "readable"), B("direct_gbuffer_d1", "readable"),
                 B("direct_curr_reservoirs", "readable"),
                 B("direct_next_reservoirs", "writable") >>]

ResolvingBindsView ==
    [name |-> "direct_resolving",
     set0 |-> << B("lights", "readable"), B("world", "readable") >>,
     set1 |-> << B("camera", "readable"),
                 B("atmosphere_transmittance_lut", "sampled"),
                 B("atmosphere_sky_lut", "sampled"),
                 B("direct_gbuffer_d0", "readable"), B("direct_gbuffer_d1", "readable"),
                 B("direct_next_reservoirs", "readable"),
                 B("direct_prev_reservoirs", "writable"),
                 B("view", "writable") >>]

ResolvingWritesNextReservoirs ==
    [name |-> "direct_resolving",
     set0 |-> << B("lights", "readable"), B("world", "readable") >>,
     set1 |-> << B("camera", "readable"),
                 B("atmosphere_transmittance_lut", "sampled"),
                 B("atmosphere_sky_lut", "sampled"),
                 B("direct_gbuffer_d0", "readable"), B("direct_gbuffer_d1", "readable"),
                 B("direct_prev_reservoirs", "readable"),
                 B("direct_next_reservoirs", "writable"),
                 B("direct_samples", "writable") >>]

DirectResolvingPass_new ==
    [name |-> "direct_resolving",
     set0 |-> << B("lights", "readable"), B("world", "readable") >>,
     set1 |-> << B("camera", "readable"),
                 B("atmosphere_transmittance_lut", "sampled"),
                 B("atmosphere_sky_lut", "sampled"),
                 B("direct_gbuffer_d0", "readable"), B("direct_gbuffer_d1", "readable"),
                 B("direct_next_reservoirs", "readable"),
                 B("direct_prev_reservoirs", "writable"),
                 B("direct_samples", "writable") >>]

\* drawing.rs: the bind group of the render pipeline; the colour attachment is
\* given to run, not bound.
DrawingPass_new ==
    [name |-> "drawing",
     set0 |-> << B("camera", "uniform"), B("directs", "ro_sampled"),
                 B("indirects", "ro_sampled"), B("normals", "ro_sampled") >>,
     set1 |-> << >>]

\* The buffers of a camera's buffer set the passes bind (buffers.*).
CameraBuffers ==
    {"camera", "ref_rays", "ref_hits", "reprojection_map", "surface_map_curr",
     "direct_gbuffer_d0", "direct_gbuffer_d1", "direct_candidates",
     "atmosphere_transmittance_lut", "atmosphere_sky_lut", "direct_samples",
     "directs", "indirects", "normals"} \cup ReservoirBuffers

\* The host's target and where on it the camera's viewport may lie.
TargetSize == <<MaxWidth + 2, MaxHeight + 2>>
Positions == {<<0, 0>>, <<2, 1>>}

\* The viewport of another camera that drew into the same target earlier: a
\* strip two pixels wide at the side of the target this camera leaves free.
OtherViewport(pos) ==
    [position |-> IF pos = <<0, 0>> THEN <<MaxWidth, 0>> ELSE <<0, 0>>,
     size |-> <<2, MaxHeight + 2>>]

\* camera.mode: what the drawing pass shows.
CameraModes == {"image", "normals"}

\* The binding slots of a bind group: a sampled texture takes two (texture, sampler).
RECURSIVE Slots(_)
Slots(set) ==
    IF set = <<>> THEN <<>>
    ELSE (IF Head(set).mode = "sampled" THEN <<Head(set), Head(set)>> ELSE <<Head(set)>>)
         \o Slots(Tail(set))

Bound(pass, mode) ==
    {pass.set0[i].buffer : i \in {j \in DOMAIN pass.set0 : pass.set0[j].mode = mode}}
        \cup {pass.set1[i].buffer : i \in {j \in DOMAIN pass.set1 : pass.set1[j].mode = mode}}

Readable(pass) == Bound(pass, "readable") \cup Bound(pass, "atlas") \cup Bound(pass, "sampled")
Writable(pass) == Bound(pass, "writable")

\* The number of 8x8 workgroups each pass dispatches for a viewport size.
RefTracingPass_size(vp) == <<(vp[1] + 7) \div 8, (vp[2] + 7) \div 8>>
DirectTemporalResamplingPass_size(vp) == <<vp[1] \div 8, vp[2] \div 8>>
DirectSpatialResamplingPass_size(vp) == <<(vp[1] + 7) \div 8, (vp[2] + 7) \div 8>>
DirectResolvingPass_size(vp) == <<vp[1] \div 8, vp[2] \div 8>>

\* The invocations of a dispatch of `size` workgroups of 8x8 threads, numbered
\* 1 .. NumInvocations, each <<workgroup x, workgroup y, local x, local y>>, and
\* their global ids.
NumInvocations(size) == size[1] * size[2] * 64

invocation(size, k) ==
    LET group == (k - 1) \div 64
        thread == (k - 1) % 64
    IN  <<group % size[1], group \div size[1], thread % 8, thread \div 8>>

global_id(inv) == <<inv[1] * 8 + inv[3], inv[2] * 8 + inv[4]>>

\* Camera::contains and Camera::screen_to_idx.
contains(vp, pos) == pos[1] < vp[1] /\ pos[2] < vp[2]
screen_to_idx(vp, pos) == pos[2] * vp[1] + pos[1]

\* The global ids of a dispatch, the in-viewport pixels it computes, and whether
\* no two of its invocations share a global id.
GlobalIds(size) == {global_id(invocation(size, k)) : k \in 1..NumInvocations(size)}

InvokedPixels(vp, size) == {pos \in GlobalIds(size) : contains(vp, pos)}

Computed(vp, size) ==
    [pixels |-> InvokedPixels(vp, size),
     once |-> Cardinality(GlobalIds(size)) = NumInvocations(size)]

----------------------------------------------------------------------------
(* Reservoirs and the kernels.                                              *)

Min(x, y) == IF x <= y THEN x ELSE y

\* A reservoir is stored as one Vec4: <<light id, w_sum, m, w>>.
EmptyVec4 == <<0, 0, 0, 0>>

DiReservoir_read(buffer, idx) ==
    [sample |-> [light_id |-> buffer[idx][1]],
     w_sum |-> buffer[idx][2],
     m |-> buffer[idx][3],
     w |-> buffer[idx][4]]

DiReservoir_write(res) == <<res.sample.light_id, res.w_sum, res.m, res.w>>

\* The reservoir buffer a name is bound to.
ReservoirsOf(name) ==
    CASE name = "direct_prev_reservoirs" -> prev_reservoirs
      [] name = "direct_curr_reservoirs" -> curr_reservoirs
      [] name = "direct_next_reservoirs" -> next_reservoirs

\* The G-buffer and the candidates of a frame, decided by its seed.
GBufferOf(vp, sd, fr) ==
    [pos \in Pixels(vp) |->
        IF (pos[1] + pos[2] + sd + fr) % 3 = 0 THEN 0 ELSE 1 + ((pos[1] + sd) % 2)]

Candidate(sd, fr, idx) ==
    [light_id |-> (sd + fr + idx) % NumLights, weight |-> 1 + ((sd + idx) % 2)]

\* Temporal resampling of one pixel: the frame's candidate merged into the
\* history read from the previous-frame reservoirs, the age capped at MaxM.
direct_temporal_resampling_main(vp, sd, fr, pos, history) ==
    LET idx == screen_to_idx(vp, pos)
        c == Candidate(sd, fr, idx)
        hist == DiReservoir_read(history, idx)
        m == Min(hist.m, MaxM - 1) + 1
        w_sum == c.weight + Min(hist.w_sum, 2 * MaxM)
        take == hist.m = 0 \/ ((sd + fr + idx) % w_sum) < c.weight
    IN  [sample |-> [light_id |-> IF take THEN c.light_id ELSE hist.sample.light_id],
         w_sum |-> w_sum, m |-> m, w |-> w_sum \div m]

\* Spatial resampling of one pixel: its reservoir merged with the one of the
\* neighbour to its right (wrapping inside the viewport).
direct_spatial_resampling_main(vp, sd, fr, pos, current) ==
    LET idx == screen_to_idx(vp, pos)
        nidx == screen_to_idx(vp, <<(pos[1] + 1) % vp[1], pos[2]>>)
        own == DiReservoir_read(current, idx)
        nbr == DiReservoir_read(current, nidx)
        m == Min(own.m + nbr.m, 2 * MaxM)
        w_sum == own.w_sum + nbr.w_sum
        take == w_sum > 0 /\ ((sd + fr + idx) % w_sum) < nbr.w_sum
    IN  [sample |-> [light_id |-> IF take THEN nbr.sample.light_id ELSE own.sample.light_id],
         w_sum |-> w_sum, m |-> m, w |-> IF m = 0 THEN 0 ELSE w_sum \div m]

\* strolle-shaders/src/di_resolving.rs: the buffers the kernel's parameters are
\* bound to (descriptor set 1, bindings 7, 8 and 9).
main_next_reservoirs == Slots(DirectResolvingPass_new.set1)[8].buffer
main_prev_reservoirs == Slots(DirectResolvingPass_new.set1)[9].buffer
main_output == Slots(DirectResolvingPass_new.set1)[10].buffer

\* Light::radiance at a hit and Atmosphere::sample along the ray of a pixel.
Light_radiance(light_id, depth) == 10 * (light_id + 1) + depth
Atmosphere_sample(pos) == <<"sky", pos[1] + pos[2]>>

\* The locals of an invocation after its reads; it returns at the viewport test
\* when its global id lies outside the viewport.
main_load(vp, gid, gbuf, next) ==
    IF ~contains(vp, gid)
    THEN [returned |-> TRUE]
    ELSE [returned |-> FALSE,
          screen_pos |-> gid,
          screen_idx |-> screen_to_idx(vp, gid),
          hit_depth |-> gbuf[gid],
          res |-> DiReservoir_read(next, screen_to_idx(vp, gid))]

MainColorUnweighted(local) ==
    IF local.hit_depth # 0
    THEN <<"light", Light_radiance(local.res.sample.light_id, local.hit_depth)>>
    ELSE Atmosphere_sample(local.screen_pos)

main_color(local) ==
    IF local.hit_depth # 0
    THEN <<"light", Light_radiance(local.res.sample.light_id, local.hit_depth) * local.res.w>>
    ELSE Atmosphere_sample(local.screen_pos)

\* The two writes of an invocation: output.write and res.write.
main_output_write(local) == [at |-> local.screen_pos, value |-> main_color(local)]

MainReservoirWriteByColumn(local) ==
    [at |-> local.screen_pos[1], value |-> DiReservoir_write(local.res)]

main_reservoir_write(local) ==
    [at |-> local.screen_idx, value |-> DiReservoir_write(local.res)]

----------------------------------------------------------------------------
(* Spec: the frame pipeline of one camera. Each pass is one action: the    *)
(* dispatch runs to completion before the next pass starts.                 *)

PassNames ==
    {"reference_tracing", "direct_temporal_resampling",
     "direct_spatial_resampling", "direct_resolving"}

NothingComputed == [n \in PassNames |-> [pixels |-> {}, once |-> TRUE]]

Access(pass, size) ==
    [pass |-> pass.name, readable |-> Readable(pass), writable |-> Writable(pass),
     size |-> size]

\* The pixels of the target inside a scissor rectangle.
scissor_rect(x, y, width, height) ==
    {p \in Pixels(TargetSize) : /\ x <= p[1] /\ p[1] < x + width
                                /\ y <= p[2] /\ p[2] < y + height}

\* The scissor rectangle of a camera's viewport.
ViewportRect(pos, size) == scissor_rect(pos[1], pos[2], size[1], size[2])

\* The target before this camera's first drawing pass: what the host put
\* there, and inside the other camera's viewport what that camera drew.
ViewBefore(pos) ==
    LET other == OtherViewport(pos)
    IN  [p \in Pixels(TargetSize) |->
            IF p \in ViewportRect(other.position, other.size)
            THEN <<"other camera", 0>>
            ELSE <<"host", 0>>]

Init ==
    /\ viewport \in Viewports
    /\ frame = 0
    /\ stage = "idle"
    /\ seed = 0
    /\ gbuffer = [pos \in Pixels(viewport) |-> 0]
    /\ prev_reservoirs = [i \in 0..(viewport[1] * viewport[2] - 1) |-> EmptyVec4]
    /\ curr_reservoirs = [i \in 0..(viewport[1] * viewport[2] - 1) |-> EmptyVec4]
    /\ next_reservoirs = [i \in 0..(viewport[1] * viewport[2] - 1) |-> EmptyVec4]
    /\ direct_samples = [pos \in Pixels(viewport) |-> <<"zero", 0>>]
    /\ written = [b \in ReservoirBuffers |-> [i \in 0..(viewport[1] * viewport[2] - 1) |-> 0]]
    /\ computed = NothingComputed
    /\ access = Empty
    /\ position \in Positions
    /\ target_view = ViewBefore(position)
    /\ SurfaceOff
    /\ ResolveOff
    /\ HostOff

\* The camera's next frame begins: the G-buffer and the candidates of the frame
\* are produced ahead of the passes modelled here.
BeginFrame ==
    /\ stage \in {"idle", "drawing"}
    /\ frame < MaxFrames
    /\ frame' = frame + 1
    /\ seed' \in Seeds
    /\ gbuffer' = GBufferOf(viewport, seed', frame')
    /\ computed' = NothingComputed
    /\ stage' = "begin"
    /\ access' = Empty
    /\ UNCHANGED <<viewport, prev_reservoirs, curr_reservoirs, next_reservoirs,
                   direct_samples, written, drawVars, surfaceVars, hostVars, resolveVars>>

\* CameraComputePass::run: the bookkeeping every dispatch shares.
Dispatched(pass, size) ==
    /\ computed' = [computed EXCEPT ![pass.name] = Computed(viewport, size)]
    /\ access' = Access(pass, size)
    /\ stage' = pass.name
    /\ UNCHANGED <<viewport, frame, seed, gbuffer, drawVars, surfaceVars, hostVars, resolveVars>>

\* The reservoir buffers after `target` received `new`, and the frame stamps
\* after the entries `touched` were written.
StoreReservoirs(target, new, touched) ==
    /\ prev_reservoirs' = IF target = "direct_prev_reservoirs" THEN new ELSE prev_reservoirs
    /\ curr_reservoirs' = IF target = "direct_curr_reservoirs" THEN new ELSE curr_reservoirs
    /\ next_reservoirs' = IF target = "direct_next_reservoirs" THEN new ELSE next_reservoirs
    /\ written' = [written EXCEPT ![target] =
                      [i \in DOMAIN @ |-> IF i \in touched THEN frame ELSE @[i]]]

\* A buffer after the writes of a dispatch landed in it: a write is [at, value],
\* a write outside the buffer is dropped, and of two writes to one place either
\* may be the one that stays.
Landed(buffer, writes) ==
    LET places == {wr.at : wr \in writes}
    IN  [i \in DOMAIN buffer |->
            IF i \in places THEN (CHOOSE wr \in writes : wr.at = i).value ELSE buffer[i]]

\* The numbers of the invocations of a dispatch that pass the viewport test.
InViewport(size) ==
    {k \in 1..NumInvocations(size) : contains(viewport, global_id(invocation(size, k)))}

\* The shader a resampling pass is built with, run for one pixel.
Kernel(pass, pos, history) ==
    IF pass.name = "direct_temporal_resampling"
    THEN direct_temporal_resampling_main(viewport, seed, frame, pos, history)
    ELSE direct_spatial_resampling_main(viewport, seed, frame, pos, history)

\* A resampling dispatch: every in-viewport invocation writes the reservoir
\* the kernel computes for its pixel, from the reservoir buffer bound readable
\* into the one bound writable, at the pixel's screen index.
Resample(pass, size) ==
    LET source == CHOOSE b \in Readable(pass) \cap ReservoirBuffers : TRUE
        target == CHOOSE b \in Writable(pass) \cap ReservoirBuffers : TRUE
        history == ReservoirsOf(source)
        writes == {[at |-> screen_to_idx(viewport, global_id(invocation(size, k))),
                    value |-> DiReservoir_write(
                                  Kernel(pass, global_id(invocation(size, k)), history))] :
                       k \in InViewport(size)}
    IN  /\ StoreReservoirs(target, Landed(ReservoirsOf(target), writes),
                           {wr.at : wr \in writes})
        /\ Dispatched(pass, size)

RefTracing ==
    /\ stage = "begin"
    /\ Dispatched(RefTracingPass_new, RefTracingPass_size(viewport))
    /\ UNCHANGED <<prev_reservoirs, curr_reservoirs, next_reservoirs, direct_samples,
                   written>>

DirectTemporalResampling ==
    /\ stage = "reference_tracing"
    /\ Resample(DirectTemporalResamplingPass_new,
                DirectTemporalResamplingPass_size(viewport))
    /\ UNCHANGED direct_samples

DirectSpatialResampling ==
    /\ stage = "direct_temporal_resampling"
    /\ Resample(DirectSpatialResamplingPass_new,
                DirectSpatialResamplingPass_size(viewport))
    /\ UNCHANGED direct_samples

\* The resolving dispatch: every invocation runs main; the writes of the
\* in-viewport invocations land in the buffers bound to prev_reservoirs and output.
DirectResolving ==
    /\ stage = "direct_spatial_resampling"
    /\ LET size == DirectResolvingPass_size(viewport)
           next == ReservoirsOf(main_next_reservoirs)
           locals == {main_load(viewport, global_id(invocation(size, k)), gbuffer, next) :
                         k \in 1..NumInvocations(size)}
           running == {local \in locals : ~local.returned}
           stores == {main_reservoir_write(local) : local \in running}
       IN  /\ StoreReservoirs(main_prev_reservoirs,
                              Landed(ReservoirsOf(main_prev_reservoirs), stores),
                              {wr.at : wr \in stores})
           /\ direct_samples' =
                Landed(direct_samples, {main_output_write(local) : local \in running})
           /\ Dispatched(DirectResolvingPass_new, size)

DrawingSkipsScissor(view, mode) == [p \in DOMAIN view |-> <<mode, frame>>]

\* DrawingPass::run: a render pass whose colour attachment is `view`, loaded
\* and stored; one triangle covering the target is drawn with the scissor
\* rectangle set to the viewport, and main_fs gives every fragment the colour
\* of the camera's mode composed from this frame's directs, indirects, normals.
DrawingPass_run(view, mode) ==
    LET rect == scissor_rect(position[1], position[2], viewport[1], viewport[2])
    IN  [p \in DOMAIN view |-> IF p \in rect THEN <<mode, frame>> ELSE view[p]]

Drawing ==
    /\ stage = "direct_resolving"
    /\ \E mode \in CameraModes : target_view' = DrawingPass_run(target_view, mode)
    /\ access' = [pass |-> DrawingPass_new.name,
                  readable |-> Bound(DrawingPass_new, "uniform")
                                   \cup Bound(DrawingPass_new, "ro_sampled"),
                  writable |-> {"view"},
                  size |-> <<3, 1>>]
    /\ stage' = "drawing"
    /\ UNCHANGED <<viewport, frame, seed, bufferVars, written, computed, position,
                   surfaceVars, hostVars, resolveVars>>

Next ==
    \/ BeginFrame
    \/ RefTracing
    \/ DirectTemporalResampling
    \/ DirectSpatialResampling
    \/ DirectResolving
    \/ Drawing

Spec == Init /\ [][Next]_vars

----------------------------------------------------------------------------
(* SpecResolve: the pipeline with the resolving dispatch run wave by wave.  *)

\* The invocations of a workgroup that run in lockstep.
WaveSize == 32

Waves(size) ==
    {<<g, t>> : g \in 0..(size[1] * size[2] - 1), t \in 0..((63 \div WaveSize))}

Lanes(size, wave) ==
    {k \in 1..NumInvocations(size) :
        (k - 1) \div 64 = wave[1] /\ ((k - 1) % 64) \div WaveSize = wave[2]}

ResolvingStart ==
    /\ stage = "direct_spatial_resampling"
    /\ stage' = "direct_resolving_running"
    /\ inv_pc' = [wave \in Waves(DirectResolvingPass_size(viewport)) |-> "ready"]
    /\ inv_local' = [wave \in Waves(DirectResolvingPass_size(viewport)) |-> Empty]
    /\ resolve_base' = [prev |-> ReservoirsOf(main_prev_reservoirs),
                        output |-> direct_samples]
    /\ UNCHANGED <<viewport, frame, seed, bufferVars, written, computed, access,
                   drawVars, surfaceVars, hostVars>>

\* Lines 26-57 of main for every invocation of a wave: the reads.
WaveLoad(wave) ==
    /\ stage = "direct_resolving_running"
    /\ inv_pc[wave] = "ready"
    /\ inv_local' =
         [inv_local EXCEPT ![wave] =
             [k \in Lanes(DirectResolvingPass_size(viewport), wave) |->
                 main_load(viewport,
                           global_id(invocation(DirectResolvingPass_size(viewport), k)),
                           gbuffer, ReservoirsOf(main_next_reservoirs))]]
    /\ inv_pc' = [inv_pc EXCEPT ![wave] = "loaded"]
    /\ UNCHANGED <<pipelineVars, surfaceVars, hostVars, resolve_base>>

\* Lines 59-63 of main for every invocation of a wave that did not return: the writes.
WaveStore(wave) ==
    /\ stage = "direct_resolving_running"
    /\ inv_pc[wave] = "loaded"
    /\ LET running == {inv_local[wave][k] : k \in DOMAIN inv_local[wave]}
                          \ {[returned |-> TRUE]}
           stores == {main_reservoir_write(local) : local \in running}
       IN  /\ StoreReservoirs(main_prev_reservoirs,
                              Landed(ReservoirsOf(main_prev_reservoirs), stores),
                              {wr.at : wr \in stores})
           /\ direct_samples' =
                Landed(direct_samples, {main_output_write(local) : local \in running})
    /\ inv_pc' = [inv_pc EXCEPT ![wave] = "done"]
    /\ inv_local' = [inv_local EXCEPT ![wave] = Empty]
    /\ UNCHANGED <<viewport, frame, stage, seed, gbuffer, computed, access,
                   drawVars, surfaceVars, hostVars, resolve_base>>

ResolvingFinish ==
    /\ stage = "direct_resolving_running"
    /\ \A wave \in DOMAIN inv_pc : inv_pc[wave] = "done"
    /\ Dispatched(DirectResolvingPass_new, DirectResolvingPass_size(viewport))
    /\ UNCHANGED <<bufferVars, written>>

\* The waves of a finished dispatch stay "done" until the next dispatch starts.
NextResolve ==
    \/ BeginFrame
    \/ RefTracing
    \/ DirectTemporalResampling
    \/ DirectSpatialResampling
    \/ ResolvingStart
    \/ \E wave \in DOMAIN inv_pc : WaveLoad(wave)
    \/ \E wave \in DOMAIN inv_pc : WaveStore(wave)
    \/ ResolvingFinish
    \/ Drawing

SpecResolve == Init /\ [][NextResolve]_vars

----------------------------------------------------------------------------
(* Claims about the frame pipeline (Spec).                                  *)

DirectPasses ==
    {"direct_temporal_resampling", "direct_spatial_resampling", "direct_resolving"}

Rank(s) ==
    CASE s \in {"idle", "begin"} -> 0
      [] s = "reference_tracing" -> 1
      [] s = "direct_temporal_resampling" -> 2
      [] s = "direct_spatial_resampling" -> 3
      [] s = "direct_resolving" -> 4
      [] s = "drawing" -> 5

\* The pass has run in the current frame.
RanThisFrame(n) == frame > 0 /\ Rank(stage) >= Rank(n)

ReadReservoirs == access.readable \cap ReservoirBuffers
WrittenReservoirs == access.writable \cap ReservoirBuffers

\* C1: in every frame none of the three direct-lighting passes has a reservoir
\* buffer in both its read set and its write set: temporal reads prev and
\* writes curr, spatial reads curr and writes next, resolving reads next and
\* writes prev.
C1_ReservoirRotation ==
    stage \in DirectPasses =>
        /\ access.pass = stage
        /\ ReadReservoirs \cap WrittenReservoirs = {}
        /\ stage = "direct_temporal_resampling" =>
              /\ ReadReservoirs = {"direct_prev_reservoirs"}
              /\ WrittenReservoirs = {"direct_curr_reservoirs"}
        /\ stage = "direct_spatial_resampling" =>
              /\ ReadReservoirs = {"direct_curr_reservoirs"}
              /\ WrittenReservoirs = {"direct_next_reservoirs"}
        /\ stage = "direct_resolving" =>
              /\ ReadReservoirs = {"direct_next_reservoirs"}
              /\ WrittenReservoirs = {"direct_prev_reservoirs"}

\* C1 witness: the resolving pass of the second frame has run and has written
\* entries of the buffer the temporal pass reads.
C1_Witness ==
    /\ stage = "direct_resolving"
    /\ frame = 2
    /\ "direct_prev_reservoirs" \in access.writable
    /\ \E i \in DOMAIN prev_reservoirs : written["direct_prev_reservoirs"][i] = 2

\* C2: for every viewport size each compute pass that has run in the frame has
\* computed every pixel of the viewport, each exactly once, so all four passes
\* process the same set of pixels.
C2_EveryPassCoversViewport ==
    \A n \in PassNames :
        RanThisFrame(n) =>
            /\ computed[n].pixels = Pixels(viewport)
            /\ computed[n].once

\* The pixels the resolving kernel is invoked on, whatever the frame.
ResolvedPixels ==
    {pos \in Pixels(viewport) :
        pos[1] < 8 * DirectResolvingPass_size(viewport)[1]
        /\ pos[2] < 8 * DirectResolvingPass_size(viewport)[2]}

\* C3: for every in-viewport pixel the resolving kernel is invoked on in frame
\* F, after the resolving pass the prev entry of the pixel equals the reservoir
\* the spatial pass of frame F left in next for it, for hit and sky pixels
\* alike; the entry stays so until the temporal pass of frame F + 1 has run,
\* and prev is the reservoir buffer that pass reads.
C3_ResolvedBecomesHistory ==
    /\ stage = "direct_resolving" =>
          /\ computed[stage].pixels = ResolvedPixels
          /\ \A pos \in ResolvedPixels :
                LET idx == pos[2] * viewport[1] + pos[1]
                IN  /\ prev_reservoirs[idx] = next_reservoirs[idx]
                    /\ written["direct_next_reservoirs"][idx] = frame
                    /\ written["direct_prev_reservoirs"][idx] = frame
    /\ (frame > 1 /\ Rank(stage) <= 2) =>
          \A pos \in ResolvedPixels :
                LET idx == pos[2] * viewport[1] + pos[1]
                IN  /\ prev_reservoirs[idx] = next_reservoirs[idx]
                    /\ written["direct_next_reservoirs"][idx] = frame - 1
                    /\ written["direct_prev_reservoirs"][idx] = frame - 1
    /\ stage = "direct_temporal_resampling" =>
          ReadReservoirs = {"direct_prev_reservoirs"}

\* C3 witness: the temporal pass of frame 2 has run on a viewport with a second
\* row; a sky pixel and a hit pixel of frame 1 both left a reservoir in prev that
\* is the one in next, and the temporal pass aged it.
C3_Witness ==
    /\ stage = "direct_temporal_resampling"
    /\ frame = 2
    /\ \E p \in ResolvedPixels, q \in ResolvedPixels :
          LET i == p[2] * viewport[1] + p[1]
              j == q[2] * viewport[1] + q[1]
          IN  /\ p[2] > 0 /\ q[2] > 0
              /\ GBufferOf(viewport, 0, 1)[p] = 0 /\ GBufferOf(viewport, 0, 1)[q] # 0
              /\ prev_reservoirs[i] = next_reservoirs[i] /\ prev_reservoirs[i][3] > 0
              /\ prev_reservoirs[j] = next_reservoirs[j] /\ prev_reservoirs[j][3] > 0
              /\ curr_reservoirs[i][3] > 1 /\ curr_reservoirs[j][3] > 1

\* C4: no pass consumes stale data: every curr entry the spatial pass reads in
\* frame F for an in-viewport pixel was written by the temporal pass of frame
\* F, and every next entry the resolving pass reads in frame F was written by
\* the spatial pass of frame F.
C4_NoStaleReservoir ==
    /\ stage = "direct_spatial_resampling" =>
          \A pos \in computed[stage].pixels :
              written["direct_curr_reservoirs"][pos[2] * viewport[1] + pos[1]] = frame
    /\ stage = "direct_resolving" =>
          \A pos \in computed[stage].pixels :
              written["direct_next_reservoirs"][pos[2] * viewport[1] + pos[1]] = frame

\* The four compute passes as they are built.
ComputePasses ==
    {RefTracingPass_new, DirectTemporalResamplingPass_new,
     DirectSpatialResamplingPass_new, DirectResolvingPass_new}

\* C12: none of the four compute passes (reference tracing, temporal
\* resampling, spatial resampling, resolving) binds a Scene Store resource
\* (triangles, BVH, materials, lights, image atlas, world) as writable: every
\* dispatch of every frame has the Scene Store resources it binds in its read
\* set only, so no sequence of pass runs writes to the Scene Store.
C12_SceneStoreReadOnly ==
    /\ \A pass \in ComputePasses : Writable(pass) \cap SceneStore = {}
    /\ stage \in PassNames =>
          /\ access.pass = stage
          /\ access.writable \cap SceneStore = {}
          /\ \A pass \in ComputePasses :
                pass.name = stage =>
                    /\ access.writable = Writable(pass)
                    /\ (Readable(pass) \cup Writable(pass)) \cap SceneStore
                          \subseteq access.readable

\* C12 witness: in the second frame the resolving pass has run with lights and
\* world bound readable and two buffers of the camera bound writable.
C12_Witness ==
    /\ frame = 2
    /\ stage = "direct_resolving"
    /\ {"lights", "world"} \subseteq access.readable
    /\ access.writable = {"direct_prev_reservoirs", "direct_samples"}

\* C14: the drawing pass is the only pass that writes to the host's target
\* view: the target changes in no step but the drawing pass's run, which is
\* given the view as its colour attachment and changes it; reference tracing,
\* temporal resampling, spatial resampling and resolving are given no view,
\* bind none, and write only buffers of the camera's own buffer set.
C14_OnlyDrawingWritesTarget ==
    /\ [][target_view' # target_view => (stage = "direct_resolving" /\ stage' = "drawing")]_vars
    /\ [][stage' = "drawing" /\ stage # "drawing" => target_view' # target_view]_vars
    /\ [](stage \in PassNames =>
            /\ "view" \notin access.readable \cup access.writable
            /\ access.writable \subseteq CameraBuffers)
    /\ [](stage = "drawing" => access.writable = {"view"})
    /\ [](\A pass \in ComputePasses :
            /\ "view" \notin Readable(pass) \cup Writable(pass)
            /\ Writable(pass) \subseteq CameraBuffers)

\* C14 witness: the drawing pass of the second frame has run after the four
\* compute passes and the target holds the frame's colours in the viewport's
\* rectangle and the host's elsewhere.
C14_Witness ==
    /\ stage = "drawing"
    /\ frame = 2
    /\ \A n \in PassNames : computed[n].pixels # {}
    /\ position = <<2, 1>>
    /\ target_view[<<2, 1>>][2] = 2
    /\ target_view[<<2, 0>>] = <<"host", 0>>

\* The scissor rectangle of this camera and the viewport of the other one.
Rect == ViewportRect(position, viewport)
OtherRect == ViewportRect(OtherViewport(position).position, OtherViewport(position).size)

\* C24: a run of the drawing pass changes only pixels of the target inside
\* the camera's viewport rectangle (position, size): the target is loaded, not
\* cleared, and the draw is scissored to the viewport, so every pixel outside
\* the rectangle keeps its contents, and the pixels another camera with a
\* disjoint viewport drew earlier still hold what that camera drew.
C24_DrawingStaysInViewport ==
    /\ [][\A p \in Pixels(TargetSize) :
             target_view'[p] # target_view[p] => p \in Rect]_vars
    /\ [][stage' = "drawing" /\ stage # "drawing" =>
             \A p \in Rect : target_view'[p][2] = frame]_vars
    /\ [](/\ Rect \cap OtherRect = {}
          /\ \A p \in OtherRect : target_view[p] = <<"other camera", 0>>
          /\ \A p \in Pixels(TargetSize) \ (Rect \cup OtherRect) :
                 target_view[p] = <<"host", 0>>)

\* C24 witness: the drawing pass has run for the largest viewport at the
\* target's origin: the rectangle holds the frame's colours up to its last
\* pixel, the strip next to it what the other camera drew, and the rows below
\* it what the host put there.
C24_Witness ==
    /\ stage = "drawing"
    /\ frame = 2
    /\ position = <<0, 0>>
    /\ viewport = <<MaxWidth, MaxHeight>>
    /\ target_view[<<MaxWidth - 1, MaxHeight - 1>>][2] = 2
    /\ target_view[<<MaxWidth, 0>>] = <<"other camera", 0>>
    /\ target_view[<<0, MaxHeight>>] = <<"host", 0>>

----------------------------------------------------------------------------
(* Claims about one dispatch of the resolving pass (SpecResolve).           *)

\* The numbers of the in-viewport invocations of the resolving dispatch, the
\* locals each has after its reads, and the places it reads and writes.
ResolvingLanes == InViewport(DirectResolvingPass_size(viewport))

ResolvingLocal(k) ==
    main_load(viewport, global_id(invocation(DirectResolvingPass_size(viewport), k)),
              gbuffer, ReservoirsOf(main_next_reservoirs))

ResolvingReads(k) ==
    { <<"direct_gbuffer_d0", ResolvingLocal(k).screen_pos>>,
      <<"direct_gbuffer_d1", ResolvingLocal(k).screen_pos>>,
      <<main_next_reservoirs, ResolvingLocal(k).screen_idx>> }

ResolvingWrites(k) ==
    { <<main_output, main_output_write(ResolvingLocal(k)).at>>,
      <<main_prev_reservoirs, main_reservoir_write(ResolvingLocal(k)).at>> }

\* C5: within one dispatch of the resolving pass the in-viewport invocations
\* write pairwise distinct places (the output texel at their own screen
\* position, the prev entry at their own screen index) and none reads a place
\* that any of them writes; hence, whatever the interleaving of the waves, the
\* dispatch leaves in prev the next entry and in the output the colour of every
\* pixel it was invoked on, and leaves every other place as it found it.
C5_ResolvingIsRaceFree ==
    /\ (stage = "direct_resolving_running"
            /\ \A wave \in DOMAIN inv_pc : inv_pc[wave] = "ready") =>
          LET reads == UNION {ResolvingReads(k) : k \in ResolvingLanes}
              writes == UNION {ResolvingWrites(k) : k \in ResolvingLanes}
          IN  /\ Cardinality(writes) = 2 * Cardinality(ResolvingLanes)
              /\ reads \cap writes = {}
              /\ \A k \in ResolvingLanes :
                    LET gid == global_id(invocation(DirectResolvingPass_size(viewport), k))
                    IN  ResolvingWrites(k) =
                            { <<"direct_samples", gid>>,
                              <<"direct_prev_reservoirs", gid[2] * viewport[1] + gid[1]>> }
    /\ (stage = "direct_resolving_running"
            /\ \A wave \in DOMAIN inv_pc : inv_pc[wave] = "done") =>
          /\ \A pos \in Pixels(viewport) :
                LET idx == pos[2] * viewport[1] + pos[1]
                    res == next_reservoirs[idx]
                IN  IF pos \in ResolvedPixels
                    THEN /\ prev_reservoirs[idx] = res
                         /\ direct_samples[pos] =
                              IF gbuffer[pos] # 0
                              THEN <<"light", Light_radiance(res[1], gbuffer[pos]) * res[4]>>
                              ELSE Atmosphere_sample(pos)
                    ELSE /\ prev_reservoirs[idx] = resolve_base.prev[idx]
                         /\ direct_samples[pos] = resolve_base.output[pos]

\* C5 witness: in the second frame, on a viewport of two workgroups, one wave
\* has written, another has read and not yet written, a third has not started.
C5_Witness ==
    /\ stage = "direct_resolving_running"
    /\ frame = 2
    /\ \E w1 \in DOMAIN inv_pc, w2 \in DOMAIN inv_pc, w3 \in DOMAIN inv_pc :
          /\ inv_pc[w1] = "done"
          /\ inv_pc[w2] = "loaded"
          /\ inv_pc[w3] = "ready"
    /\ \E i \in DOMAIN prev_reservoirs :
          /\ written["direct_prev_reservoirs"][i] = 2
          /\ prev_reservoirs[i] = next_reservoirs[i]

----------------------------------------------------------------------------
(* bevy-strolle/src/stages/extract.rs: meshes, materials and images.        *)

\* The most asset events one extraction reads.
MaxEvents == 2

Handles == {"h1", "h2"}

AssetEvents == [type : {"Created", "Modified", "Removed"}, handle : Handles]

\* What an EventReader can yield to one extraction.
Batches == UNION {[1..n -> AssetEvents] : n \in 0..MaxEvents}

\* Assets<Mesh> and Assets<M>: handle -> <<>> (no asset) or <<the asset>>.
MeshAssets == [Handles -> {<<>>, <<[data |-> "vertices"]>>}]

\* Assets<Image>: an image has a texture usage with or without COPY_SRC, a
\* sampler and its data.
ImageAssets ==
    [Handles ->
        {<<>>,
         <<[copy_src |-> FALSE, sampler |-> "Default", data |-> "pixels"]>>,
         <<[copy_src |-> TRUE, sampler |-> "Default", data |-> "pixels"]>>,
         <<[copy_src |-> TRUE, sampler |-> "linear", data |-> "texels"]>>}]

\* The orders in which iterating a HashSet may yield its elements.
Orders(set) ==
    {order \in [1..Cardinality(set) -> set] :
        \A i, j \in 1..Cardinality(set) : order[i] = order[j] => i = j}

RECURSIVE ForAssetEventsKeepsRemoved(_, _)
ForAssetEventsKeepsRemoved(events, st) ==
    IF events = <<>> THEN st
    ELSE ForAssetEventsKeepsRemoved(
             Tail(events),
             IF Head(events).type \in {"Created", "Modified"}
             THEN [st EXCEPT !.changed = @ \cup {Head(events).handle}]
             ELSE [st EXCEPT !.removed = Append(@, Head(events).handle)])

\* meshes and materials: the loop over the asset events, from its locals
\* st = [changed, removed] to what they are when it ends.
RECURSIVE for_asset_events(_, _)
for_asset_events(events, st) ==
    IF events = <<>> THEN st
    ELSE for_asset_events(
             Tail(events),
             IF Head(events).type \in {"Created", "Modified"}
             THEN [st EXCEPT !.changed = @ \cup {Head(events).handle}]
             ELSE [st EXCEPT !.changed = @ \ {Head(events).handle},
                             !.removed = Append(@, Head(events).handle)])

\* images: the loop over the StrolleEvents; every event is a MarkImageAsDynamic
\* and `events` is the set of the handles they name.
for_strolle_events(events, dynamic) == dynamic \cup events

RECURSIVE ForImageEventsKeepsDynamic(_, _)
ForImageEventsKeepsDynamic(events, st) ==
    IF events = <<>> THEN st
    ELSE ForImageEventsKeepsDynamic(
             Tail(events),
             IF Head(events).type \in {"Created", "Modified"}
             THEN [st EXCEPT !.changed = @ \cup {Head(events).handle}]
             ELSE [st EXCEPT !.changed = @ \ {Head(events).handle},
                             !.removed = Append(@, Head(events).handle)])

\* images: the loop over the asset events, st = [changed, removed, dynamic].
RECURSIVE for_image_events(_, _)
for_image_events(events, st) ==
    IF events = <<>> THEN st
    ELSE for_image_events(
             Tail(events),
             IF Head(events).type \in {"Created", "Modified"}
             THEN [st EXCEPT !.changed = @ \cup {Head(events).handle}]
             ELSE [st EXCEPT !.changed = @ \ {Head(events).handle},
                             !.removed = Append(@, Head(events).handle),
                             !.dynamic = @ \ {Head(events).handle}])

\* The handles the flat_map closure finds an asset for, and those it does not
\* and pushes to `removed`, in the order the closure is called.
Found(order, assets) == SelectSeq(order, LAMBDA handle : assets[handle] # <<>>)

MissingDropped(order, assets) == <<>>

Missing(order, assets) == SelectSeq(order, LAMBDA handle : assets[handle] = <<>>)

\* meshes: the ExtractedMeshes inserted for the events read, the asset store
\* and the order in which the set `changed` is iterated.
meshes(events, assets, order) ==
    LET st == for_asset_events(events, [changed |-> {}, removed |-> <<>>])
        found == Found(order, assets)
    IN  [resource |-> "ExtractedMeshes",
         changed |-> [i \in 1..Len(found) |->
                         [handle |-> found[i], asset |-> assets[found[i]][1]]],
         removed |-> st.removed \o Missing(order, assets)]

materials(events, assets, order) ==
    LET st == for_asset_events(events, [changed |-> {}, removed |-> <<>>])
        found == Found(order, assets)
    IN  [resource |-> "ExtractedMaterials",
         changed |-> [i \in 1..Len(found) |->
                         [handle |-> found[i], asset |-> assets[found[i]][1]]],
         removed |-> st.removed \o Missing(order, assets)]

ImageDataUnchecked(image, is_dynamic) ==
    IF is_dynamic
    THEN [is_legal |-> TRUE, data |-> [variant |-> "Texture", is_dynamic |-> TRUE]]
    ELSE [is_legal |-> TRUE, data |-> [variant |-> "Raw", data |-> image.data]]

\* images: `data` of a changed image, and whether the assertion on the way holds.
image_data(image, is_dynamic) ==
    IF is_dynamic
    THEN [is_legal |-> image.copy_src,
          data |-> [variant |-> "Texture", is_dynamic |-> TRUE]]
    ELSE [is_legal |-> TRUE, data |-> [variant |-> "Raw", data |-> image.data]]

\* images: the ExtractedImage the flat_map closure returns for a found image.
extracted_image(handle, image, dynamic) ==
    [handle |-> handle,
     texture_descriptor |-> [usage_copy_src |-> image.copy_src],
     sampler_descriptor |-> IF image.sampler = "Default" THEN "nearest" ELSE image.sampler,
     data |-> image_data(image, handle \in dynamic).data]

\* images: the set dynamic_images is left as, whether an assertion failed while
\* `changed` was collected, and the ExtractedImages that is inserted if none did.
images(events, asset_events, assets, dynamic, order) ==
    LET st == for_image_events(
                  asset_events,
                  [changed |-> {}, removed |-> <<>>,
                   dynamic |-> for_strolle_events(events, dynamic)])
        found == Found(order, assets)
    IN  [dynamic_images |-> st.dynamic,
         panicked |-> \E i \in 1..Len(found) :
                         ~image_data(assets[found[i]][1], found[i] \in st.dynamic).is_legal,
         inserted |-> [resource |-> "ExtractedImages",
                       changed |-> [i \in 1..Len(found) |->
                                       extracted_image(found[i], assets[found[i]][1],
                                                       st.dynamic)],
                       removed |-> st.removed \o Missing(order, assets)]]

\* The set `changed` an extraction iterates once its loop over the events ended.
ChangedSet(events) == for_asset_events(events, [changed |-> {}, removed |-> <<>>]).changed

----------------------------------------------------------------------------
(* SpecExtract: the three asset extraction systems. A system runs on the   *)
(* events its readers hold and on the asset store as it is then; the        *)
(* prepare stage takes the inserted resource before the next extraction.    *)

InitExtract ==
    /\ SurfaceOff /\ PipelineOff /\ ResolveOff
    /\ AssetsOff /\ InstancesOff /\ CamerasOff /\ MaterialOff

ExtractIdle == ~panicked /\ extract_out = Empty

ExtractMeshes ==
    /\ ExtractIdle
    /\ \E events \in Batches, assets \in MeshAssets :
          \E order \in Orders(ChangedSet(events)) :
              /\ extract_out' = <<meshes(events, assets, order)>>
              /\ extract_in' = [system |-> "meshes", events |-> {},
                                asset_events |-> events, assets |-> assets]
    /\ UNCHANGED <<dynamic_images, marked, panicked>>
    /\ UNCHANGED <<surfaceVars, pipelineVars, resolveVars, instanceVars, cameraVars,
                   materialVars>>

ExtractMaterials ==
    /\ ExtractIdle
    /\ \E events \in Batches, assets \in MeshAssets :
          \E order \in Orders(ChangedSet(events)) :
              /\ extract_out' = <<materials(events, assets, order)>>
              /\ extract_in' = [system |-> "materials", events |-> {},
                                asset_events |-> events, assets |-> assets]
    /\ UNCHANGED <<dynamic_images, marked, panicked>>
    /\ UNCHANGED <<surfaceVars, pipelineVars, resolveVars, instanceVars, cameraVars,
                   materialVars>>

ExtractImages ==
    /\ ExtractIdle
    /\ \E events \in SUBSET Handles, asset_events \in Batches, assets \in ImageAssets :
          \E order \in Orders(ChangedSet(asset_events)) :
              LET run == images(events, asset_events, assets, dynamic_images, order)
              IN  /\ dynamic_images' = run.dynamic_images
                  /\ panicked' = run.panicked
                  /\ extract_out' = IF run.panicked THEN Empty ELSE <<run.inserted>>
                  /\ extract_in' = [system |-> "images", events |-> events,
                                    asset_events |-> asset_events, assets |-> assets]
                  /\ marked' = (marked \cup events)
                                  \ {asset_events[i].handle :
                                        i \in {j \in DOMAIN asset_events :
                                                  asset_events[j].type = "Removed"}}
    /\ UNCHANGED <<surfaceVars, pipelineVars, resolveVars, instanceVars, cameraVars,
                   materialVars>>

\* The prepare stage has taken the resource of the last extraction.
Prepare ==
    /\ extract_out # Empty
    /\ extract_out' = Empty
    /\ extract_in' = Empty
    /\ UNCHANGED <<dynamic_images, marked, panicked>>
    /\ UNCHANGED <<surfaceVars, pipelineVars, resolveVars, instanceVars, cameraVars,
                   materialVars>>

NextExtract ==
    \/ ExtractMeshes
    \/ ExtractMaterials
    \/ ExtractImages
    \/ Prepare

SpecExtract == InitExtract /\ [][NextExtract]_vars

----------------------------------------------------------------------------
(* Claims about the asset extraction systems (SpecExtract).                 *)

\* An extraction system has run and its inputs are on record.
Ran(system) == extract_in # Empty /\ extract_in.system = system

\* The type of the last event of a batch that names a handle, "none" without one.
LastEvent(handle, batch) ==
    LET at == {i \in DOMAIN batch : batch[i].handle = handle}
    IN  IF at = {} THEN "none"
        ELSE batch[CHOOSE i \in at : \A j \in at : j <= i].type

HasEvent(handle, batch, types) ==
    \E i \in DOMAIN batch : batch[i].handle = handle /\ batch[i].type \in types

\* The handles an extraction has to report as changed: the last event of the
\* batch for the handle is Created or Modified and the store holds the asset.
ToExtract ==
    {handle \in Handles :
        /\ LastEvent(handle, extract_in.asset_events) \in {"Created", "Modified"}
        /\ extract_in.assets[handle] # <<>>}

\* C13: an images extraction fails with a fatal assertion, and inserts no
\* ExtractedImages, exactly when an image it has to extract as changed, one
\* present in the asset store, is marked dynamic while its texture usage lacks
\* COPY_SRC; when the usage of every such image includes COPY_SRC no assertion
\* fires and the changelog is inserted.
C13_DynamicNeedsCopySrc ==
    Ran("images") =>
        /\ panicked <=> \E handle \in ToExtract :
                            /\ handle \in marked
                            /\ ~extract_in.assets[handle][1].copy_src
        /\ panicked => extract_out = Empty
        /\ ~panicked => /\ extract_out # Empty
                        /\ extract_out[1].resource = "ExtractedImages"

\* C13 witness: an image marked dynamic by an earlier extraction is modified
\* while its usage lacks COPY_SRC, next to a changed image that is not dynamic:
\* the assertion failed and nothing was inserted.
C13_Witness ==
    /\ Ran("images")
    /\ panicked
    /\ extract_out = Empty
    /\ extract_in.events = {}
    /\ extract_in.asset_events
          = <<[type |-> "Created", handle |-> "h2"], [type |-> "Modified", handle |-> "h1"]>>
    /\ "h1" \in marked /\ "h2" \notin marked
    /\ ~extract_in.assets["h1"][1].copy_src
    /\ extract_in.assets["h2"] # <<>>

\* An extraction has inserted its changelog, and the lists of that changelog.
Inserted == extract_in # Empty /\ extract_out # Empty
Changed == extract_out[1].changed
Removed == extract_out[1].removed

Times(handle, list) == Cardinality({i \in DOMAIN list : list[i].handle = handle})

RemovedHandles == {Removed[i] : i \in DOMAIN Removed}

\* C15: in the changelog a meshes, materials or images extraction inserts (no
\* assertion having failed), for every batch of asset events processed in
\* order, a handle is in `changed` exactly when the last event of the batch for
\* that handle is Created or Modified, not Removed, and the asset store holds
\* the asset at extraction time; it is in `changed` at most once.
C15_ChangedIsLastEventAndPresent ==
    Inserted =>
        \A handle \in Handles :
            Times(handle, Changed) = IF handle \in ToExtract THEN 1 ELSE 0

\* C15 witness: a batch removes an asset and creates it again, the store holds
\* it and the changelog has it in `changed` once.
C15_Witness ==
    /\ Inserted
    /\ extract_in.asset_events
          = <<[type |-> "Removed", handle |-> "h1"], [type |-> "Created", handle |-> "h1"]>>
    /\ extract_in.assets["h1"] # <<>>
    /\ Len(Changed) = 1
    /\ Changed[1].handle = "h1"

\* C16: no observed change is dropped: in the changelog an extraction inserts,
\* every handle with at least one Created, Modified or Removed event in the
\* batch is in `changed` or in `removed`; a handle with a Removed event is in
\* `removed`, and so is a handle with a Created or Modified event whose asset
\* the store no longer holds.
C16_NoChangeDropped ==
    Inserted =>
        \A handle \in Handles :
            LET batch == extract_in.asset_events
            IN  /\ HasEvent(handle, batch, {"Created", "Modified", "Removed"}) =>
                      (Times(handle, Changed) > 0 \/ handle \in RemovedHandles)
                /\ HasEvent(handle, batch, {"Removed"}) => handle \in RemovedHandles
                /\ (HasEvent(handle, batch, {"Created", "Modified"})
                        /\ extract_in.assets[handle] = <<>>) =>
                      handle \in RemovedHandles

\* C16 witness: both handles are modified, the store holds the asset of neither
\* any more, and both are reported in `removed` and none in `changed`.
C16_Witness ==
    /\ Inserted
    /\ extract_in.asset_events
          = <<[type |-> "Modified", handle |-> "h1"], [type |-> "Created", handle |-> "h2"]>>
    /\ extract_in.assets["h1"] = <<>>
    /\ extract_in.assets["h2"] = <<>>
    /\ Changed = <<>>
    /\ RemovedHandles = {"h1", "h2"}

\* The handles the changelog reports as changed and as removed at once.
ChangedAndRemoved == {handle \in Handles : Times(handle, Changed) > 0} \cap RemovedHandles

\* C22 as claimed: in the changelog a meshes, materials or images extraction
\* inserts, whatever the order of the events of the batch, no handle is both
\* in `changed` and in `removed`.
C22_ChangedRemovedDisjoint ==
    Inserted => ChangedAndRemoved = {}

\* C22 as amended: in the changelog an extraction inserts, a handle is both in
\* `changed` and in `removed` exactly when the batch holds a Removed event for
\* it, the last event of the batch for it is Created or Modified and the store
\* holds the asset (an asset removed and created again within one batch); every
\* other handle is in at most one of the two lists.
C22_BothOnlyWhenCreatedAgain ==
    Inserted =>
        ChangedAndRemoved
            = {handle \in ToExtract :
                   HasEvent(handle, extract_in.asset_events, {"Removed"})}

\* C22 witness: a materials extraction whose batch removes h2 and then creates
\* it again, the store holding the asset, reports h2 in both lists.
C22_Witness ==
    /\ Ran("materials")
    /\ extract_in.asset_events
          = <<[type |-> "Removed", handle |-> "h2"], [type |-> "Created", handle |-> "h2"]>>
    /\ extract_in.assets["h2"] # <<>>
    /\ Len(Changed) = 1 /\ Changed[1].handle = "h2"
    /\ Removed = <<"h2">>

\* C18: in the changelog an images extraction inserts, a changed image is a
\* dynamic texture (ExtractedImageData::Texture, is_dynamic = true) exactly
\* when its handle was marked by a MarkImageAsDynamic event and no Removed
\* asset event for the handle has been processed since the mark, the marks of
\* an extraction being applied before its asset events; any other changed
\* image is a Raw copy of the image's data. A Removed event clears the mark.
C18_DynamicIffMarked ==
    Ran("images") =>
        /\ dynamic_images = marked
        /\ \A handle \in Handles :
              HasEvent(handle, extract_in.asset_events, {"Removed"}) =>
                  handle \notin dynamic_images
        /\ extract_out # Empty =>
              \A i \in DOMAIN Changed :
                  LET image == extract_in.assets[Changed[i].handle][1]
                  IN  IF Changed[i].handle \in marked
                      THEN Changed[i].data = [variant |-> "Texture", is_dynamic |-> TRUE]
                      ELSE Changed[i].data = [variant |-> "Raw", data |-> image.data]

\* C18 witness: an image marked by an earlier extraction is the one image
\* changed now, and it is extracted as a dynamic texture.
C18_Witness ==
    /\ Ran("images")
    /\ extract_out # Empty
    /\ extract_in.events = {}
    /\ Len(extract_in.asset_events) = 1
    /\ Len(Changed) = 1
    /\ Changed[1].data = [variant |-> "Texture", is_dynamic |-> TRUE]
    /\ Changed[1].handle \in dynamic_images

----------------------------------------------------------------------------
(* bevy-strolle/src/stages/extract.rs: instances.                           *)

\* The entities of the main world.
NumEntities == 3
Entities == 1..NumEntities

\* The items a query yields, in the order of the entities' ids.
Iter(matched) ==
    CHOOSE order \in Orders(matched) :
        \A i, j \in DOMAIN order : i < j => order[i] < order[j]

\* instances: the entities of `known`, extended by the changed ones, that the
\* `all` query does not match.
difference(all, changed, stored) == (stored \cup changed) \ all

InstancesKeepKnown(all, changed, stored, order) ==
    [known |-> stored \cup changed,
     inserted |-> [changed |-> [i \in 1..Cardinality(changed) |->
                                   [entity |-> Iter(changed)[i]]],
                   removed |-> order]]

\* instances: `known` as the system leaves it and the ExtractedInstances it
\* inserts, for the entities the two queries match, `known` as the system
\* finds it and the order in which the difference of the two sets is iterated.
\* Of a changed instance only the entity is kept; its two handles and its
\* matrix are copied next to it.
instances(all, changed, stored, order) ==
    LET extended == stored \cup changed
        removed == order
    IN  [known |-> extended \ {removed[i] : i \in DOMAIN removed},
         inserted |-> [changed |-> [i \in 1..Cardinality(changed) |->
                                       [entity |-> Iter(changed)[i]]],
                       removed |-> removed]]

\* The entities the `all` query matched when the system last ran.
MatchedBefore == IF instances_in = Empty THEN {} ELSE instances_in.all

InitInstances ==
    /\ SurfaceOff /\ PipelineOff /\ ResolveOff
    /\ AssetsOff /\ InstancesOff /\ CamerasOff /\ MaterialOff

\* A run of the system: an entity that matches the queries for the first time
\* since the last run has a component added since, so `changed` yields it.
ExtractInstances ==
    /\ \E all \in SUBSET Entities :
          \E changed \in {c \in SUBSET all : all \ MatchedBefore \subseteq c} :
              \E order \in Orders(difference(all, changed, known)) :
                  LET run == instances(all, changed, known, order)
                  IN  /\ known' = run.known
                      /\ instances_out' = <<run.inserted>>
                      /\ instances_in' = [all |-> all, changed |-> changed,
                                          earlier |-> reported]
                      /\ reported' =
                            (reported \cup changed)
                                \ {run.inserted.removed[i] :
                                      i \in DOMAIN run.inserted.removed}
    /\ UNCHANGED <<surfaceVars, pipelineVars, resolveVars, assetVars, cameraVars,
                   materialVars>>

NextInstances == ExtractInstances

SpecInstances == InitInstances /\ [][NextInstances]_vars

\* C17: over any sequence of instance extractions, an entity is reported in
\* `removed` exactly when an earlier extraction reported it in `changed`, no
\* extraction has reported it removed since, and the instance query no longer
\* matches it; a disappearance is reported exactly once; and after every
\* extraction `known` holds only entities the query matches now.
C17_RemovedOncePerDisappearance ==
    instances_out # Empty =>
        LET removed == instances_out[1].removed
        IN  /\ {removed[i] : i \in DOMAIN removed}
                  = {entity \in instances_in.earlier : entity \notin instances_in.all}
            /\ \A i, j \in DOMAIN removed : removed[i] = removed[j] => i = j
            /\ \A i \in DOMAIN removed : removed[i] \notin reported
            /\ known \subseteq instances_in.all

\* C17 witness: two entities reported changed by an earlier extraction match
\* the query no longer and are reported removed, and `known` is left empty.
C17_Witness ==
    /\ instances_out # Empty
    /\ Len(instances_out[1].removed) = 2
    /\ instances_in.earlier = {1, 2}
    /\ instances_in.all = {}
    /\ known = {}

----------------------------------------------------------------------------
(* bevy-strolle/src/stages/extract.rs: cameras.                             *)

CameraEntities == {1, 2}

\* crate::graph::NAME, and the name of another render graph.
NAME == "strolle"
RenderGraphs == {NAME, "core_3d"}

\* Projection: Perspective(PerspectiveProjection) or Orthographic(..).
Projections ==
    {<<"Perspective", [fov |-> 45]>>, <<"Perspective", [fov |-> 60]>>,
     <<"Orthographic", [scale |-> 1]>>}

\* The components the cameras query reads; strolle_camera is None (<<>>) or
\* Some(StrolleCamera { mode }).
CameraComponents ==
    [is_active : BOOLEAN,
     camera_render_graph : RenderGraphs,
     projection : Projections,
     transform : {"at_origin", "moved"},
     strolle_camera : {<<>>, <<[mode |-> "Image"]>>, <<[mode |-> "Normals"]>>}]

CamerasOfAnyGraph(world) ==
    [entity \in DOMAIN world |->
        IF ~world[entity].is_active
        THEN <<>>
        ELSE IF world[entity].projection[1] # "Perspective"
        THEN <<>>
        ELSE <<[transform |-> world[entity].transform,
                projection |-> world[entity].projection[2],
                mode |-> IF world[entity].strolle_camera = <<>>
                         THEN <<>>
                         ELSE <<world[entity].strolle_camera[1].mode>>]>>]

\* cameras: for every entity of the query, the ExtractedCamera inserted for it
\* in the render world, <<>> if the loop skips the entity.
cameras(world) ==
    [entity \in DOMAIN world |->
        IF ~world[entity].is_active \/ world[entity].camera_render_graph # NAME
        THEN <<>>
        ELSE IF world[entity].projection[1] # "Perspective"
        THEN <<>>
        ELSE <<[transform |-> world[entity].transform,
                projection |-> world[entity].projection[2],
                mode |-> IF world[entity].strolle_camera = <<>>
                         THEN <<>>
                         ELSE <<world[entity].strolle_camera[1].mode>>]>>]

InitCameras ==
    /\ cameras_world \in [CameraEntities -> CameraComponents]
    /\ cameras_out = Empty
    /\ SurfaceOff /\ PipelineOff /\ ResolveOff
    /\ AssetsOff /\ InstancesOff /\ MaterialOff

ExtractCameras ==
    /\ cameras_out = Empty
    /\ cameras_out' = cameras(cameras_world)
    /\ UNCHANGED <<cameras_world, surfaceVars, pipelineVars, resolveVars, assetVars,
                   instanceVars, materialVars>>

NextCameras == ExtractCameras

SpecCameras == InitCameras /\ [][NextCameras]_vars

\* C19: the camera extraction produces an ExtractedCamera for a camera entity
\* exactly when the camera is active, its render graph is the Strolle graph and
\* its projection is a perspective projection; the ExtractedCamera has the
\* camera's transform, its perspective projection and its mode unchanged, the
\* mode being None when the entity has no StrolleCamera.
C19_CameraExtracted ==
    cameras_out # Empty =>
        \A entity \in CameraEntities :
            LET camera == cameras_world[entity]
                out == cameras_out[entity]
            IN  /\ out # <<>> <=> /\ camera.is_active
                                  /\ camera.camera_render_graph = "strolle"
                                  /\ camera.projection[1] = "Perspective"
                /\ out # <<>> =>
                      /\ out[1].transform = camera.transform
                      /\ out[1].projection = camera.projection[2]
                      /\ camera.strolle_camera = <<>> => out[1].mode = <<>>
                      /\ camera.strolle_camera # <<>> =>
                            out[1].mode = <<camera.strolle_camera[1].mode>>

\* C19 witness: one camera is active, on the Strolle graph, perspective and
\* without a StrolleCamera, and is extracted with mode None; the other is
\* active and perspective but on another graph, and is not extracted.
C19_Witness ==
    /\ cameras_out # Empty
    /\ cameras_out[1] # <<>>
    /\ cameras_out[1][1].mode = <<>>
    /\ cameras_out[1][1].projection = [fov |-> 60]
    /\ cameras_out[1][1].transform = "moved"
    /\ cameras_out[2] = <<>>
    /\ cameras_world[2].is_active
    /\ cameras_world[2].projection[1] = "Perspective"
    /\ cameras_world[2].camera_render_graph = "core_3d"

----------------------------------------------------------------------------
(* bevy-strolle/src/material.rs: into_material.                             *)

\* Alpha values are the quarters 0/4 .. MaxAlpha/4.
MaxAlpha == 4
Alphas == {Rat(k, 4) : k \in 0..MaxAlpha}

\* bevy's AlphaMode; Mask carries its cutoff.
AlphaModes ==
    {<<"Opaque">>, <<"Mask", Rat(1, 4)>>, <<"Mask", Rat(1, 2)>>, <<"Blend">>,
     <<"Premultiplied">>, <<"Add">>, <<"Multiply">>}

\* Option<Handle<Image>>: None is <<>>, Some(handle) is <<handle>>.
Textures == {<<>>, <<"h1">>, <<"h2">>}

StandardMaterials ==
    [base_color : [rgb : {"orange"}, a : Alphas],
     base_color_texture : Textures,
     emissive : {[rgb |-> "black", a |-> One]},
     emissive_texture : Textures,
     perceptual_roughness : {Rat(1, 2)},
     metallic : {Zero},
     reflectance : {Rat(1, 2)},
     normal_map_texture : Textures,
     alpha_mode : AlphaModes]

\* StrolleMaterial::default: the default parent and an index of refraction of 1.0.
StrolleMaterial_default ==
    [parent |-> [base_color |-> [rgb |-> "orange", a |-> One],
                 base_color_texture |-> <<>>,
                 emissive |-> [rgb |-> "black", a |-> One],
                 emissive_texture |-> <<>>,
                 perceptual_roughness |-> Rat(1, 2),
                 metallic |-> Zero,
                 reflectance |-> Rat(1, 2),
                 normal_map_texture |-> <<>>,
                 alpha_mode |-> <<"Opaque">>],
     ior |-> One]

StrolleMaterials ==
    [parent : StandardMaterials, ior : {StrolleMaterial_default.ior, Rat(3, 2)}]

\* utils::color_to_vec4: the colour's linear red, green and blue, and its alpha.
color_to_vec4(color) ==
    <<<<"linear red", color.rgb>>, <<"linear green", color.rgb>>,
      <<"linear blue", color.rgb>>, color.a>>

\* GlamCompat::compat: the vector of the other glam version, by components.
compat(v) == <<v[1], v[2], v[3], v[4]>>

\* Option::map(|handle| handle.id()).
map_id(texture) == IF texture = <<>> THEN <<>> ELSE <<[id |-> texture[1]]>>

\* st::Material::default(): the fields into_material does not set.
st_Material_default == [ior |-> One]

StandardMaterialMaskAboveCutoff(self) ==
    LET color == color_to_vec4(self.base_color)
        base_color ==
            CASE self.alpha_mode[1] = "Opaque" -> <<color[1], color[2], color[3], One>>
              [] self.alpha_mode[1] = "Mask" ->
                    IF RatLt(self.alpha_mode[2], color[4])
                    THEN <<color[1], color[2], color[3], One>>
                    ELSE <<color[1], color[2], color[3], Zero>>
              [] OTHER -> color
        alpha_mode == IF self.alpha_mode[1] = "Opaque" THEN "Opaque" ELSE "Blend"
    IN  [base_color |-> compat(base_color),
         base_color_texture |-> map_id(self.base_color_texture),
         emissive |-> compat(color_to_vec4(self.emissive)),
         emissive_texture |-> map_id(self.emissive_texture),
         perceptual_roughness |-> self.perceptual_roughness,
         metallic |-> self.metallic,
         reflectance |-> self.reflectance,
         normal_map_texture |-> map_id(self.normal_map_texture),
         alpha_mode |-> alpha_mode,
         ior |-> st_Material_default.ior]

\* <StandardMaterial as MaterialLike>::into_material.
StandardMaterial_into_material(self) ==
    LET color == color_to_vec4(self.base_color)
        base_color ==
            CASE self.alpha_mode[1] = "Opaque" -> <<color[1], color[2], color[3], One>>
              [] self.alpha_mode[1] = "Mask" ->
                    IF RatLeq(self.alpha_mode[2], color[4])
                    THEN <<color[1], color[2], color[3], One>>
                    ELSE <<color[1], color[2], color[3], Zero>>
              [] OTHER -> color
        alpha_mode == IF self.alpha_mode[1] = "Opaque" THEN "Opaque" ELSE "Blend"
    IN  [base_color |-> compat(base_color),
         base_color_texture |-> map_id(self.base_color_texture),
         emissive |-> compat(color_to_vec4(self.emissive)),
         emissive_texture |-> map_id(self.emissive_texture),
         perceptual_roughness |-> self.perceptual_roughness,
         metallic |-> self.metallic,
         reflectance |-> self.reflectance,
         normal_map_texture |-> map_id(self.normal_map_texture),
         alpha_mode |-> alpha_mode,
         ior |-> st_Material_default.ior]

\* <StrolleMaterial as MaterialLike>::into_material.
StrolleMaterial_into_material(self) ==
    [StandardMaterial_into_material(self.parent) EXCEPT !.ior = self.ior]

\* MaterialLike::into_material of either implementor.
into_material(m) ==
    IF m.type = "StandardMaterial"
    THEN StandardMaterial_into_material(m.material)
    ELSE StrolleMaterial_into_material(m.material)

\* <StandardMaterial as MaterialLike>::images: the Option of the base colour
\* texture chained with the Option of the normal map texture, collected.
StandardMaterial_images(self) ==
    self.base_color_texture \o self.normal_map_texture

\* <StrolleMaterial as MaterialLike>::images.
StrolleMaterial_images(self) == StandardMaterial_images(self.parent)

\* MaterialLike::images of either implementor.
MaterialLike_images(m) ==
    IF m.type = "StandardMaterial"
    THEN StandardMaterial_images(m.material)
    ELSE StrolleMaterial_images(m.material)

----------------------------------------------------------------------------
(* SpecMaterial: images and into_material called on one material of either  *)
(* type.                                                                    *)

InitMaterial ==
    /\ material_in \in
          [type : {"StandardMaterial"}, material : StandardMaterials]
              \cup [type : {"StrolleMaterial"}, material : StrolleMaterials]
    /\ material_out = Empty
    /\ material_images = Empty
    /\ SurfaceOff /\ PipelineOff /\ ResolveOff
    /\ AssetsOff /\ InstancesOff /\ CamerasOff

\* images(&self) borrows the material: it is called while the material is
\* still there, before into_material(self) consumes it.
Images ==
    /\ material_images = Empty
    /\ material_out = Empty
    /\ material_images' = <<MaterialLike_images(material_in)>>
    /\ UNCHANGED <<material_in, material_out, surfaceVars, pipelineVars, resolveVars,
                   assetVars, instanceVars, cameraVars>>

IntoMaterial ==
    /\ material_out = Empty
    /\ material_out' = <<into_material(material_in)>>
    /\ UNCHANGED <<material_in, material_images, surfaceVars, pipelineVars,
                   resolveVars, assetVars, instanceVars, cameraVars>>

NextMaterial == Images \/ IntoMaterial

SpecMaterial == InitMaterial /\ [][NextMaterial]_vars

\* The StandardMaterial a converted material is or extends.
Standard ==
    IF material_in.type = "StandardMaterial"
    THEN material_in.material
    ELSE material_in.material.parent

\* C20: into_material of a StandardMaterial maps the alpha mode Opaque to
\* Opaque and every other alpha mode, Mask included, to Blend; the alpha of the
\* resulting base colour is 1.0 for Opaque, for Mask exactly 1.0 when the source
\* alpha is at or above the cutoff and exactly 0.0 when it is below, and the
\* source alpha for every other mode. into_material of a StrolleMaterial gives
\* the material its parent gives but for the index of refraction, which is the
\* StrolleMaterial's and is 1.0 by default.
C20_IntoMaterial ==
    material_out # Empty =>
        LET out == material_out[1]
            mode == Standard.alpha_mode
            alpha == Standard.base_color.a
        IN  /\ mode[1] = "Opaque" => out.alpha_mode = "Opaque" /\ out.base_color[4] = One
            /\ mode[1] # "Opaque" => out.alpha_mode = "Blend"
            /\ mode[1] = "Mask" =>
                  /\ alpha.n * mode[2].d >= mode[2].n * alpha.d => out.base_color[4] = One
                  /\ alpha.n * mode[2].d < mode[2].n * alpha.d => out.base_color[4] = Zero
            /\ mode[1] \notin {"Opaque", "Mask"} => out.base_color[4] = alpha
            /\ material_in.type = "StrolleMaterial" =>
                  /\ out.ior = material_in.material.ior
                  /\ [out EXCEPT !.ior = Zero]
                        = [StandardMaterial_into_material(Standard) EXCEPT !.ior = Zero]
            /\ StrolleMaterial_default.ior = One

\* C20 witness: a StrolleMaterial with an index of refraction of 1.5 whose
\* parent has the alpha mode Mask and an alpha equal to the cutoff is converted
\* to a Blend material of alpha 1.0 with that index of refraction.
C20_Witness ==
    /\ material_out # Empty
    /\ material_in.type = "StrolleMaterial"
    /\ material_in.material.ior = Rat(3, 2)
    /\ Standard.alpha_mode = <<"Mask", Rat(1, 2)>>
    /\ Standard.base_color.a = Rat(1, 2)
    /\ material_out[1].alpha_mode = "Blend"
    /\ material_out[1].base_color[4] = One
    /\ material_out[1].ior = Rat(3, 2)

\* The image ids the converted material refers to, and the ids of the handles
\* images returned.
ReferredImages ==
    LET out == material_out[1]
    IN  {t[1].id : t \in {out.base_color_texture, out.emissive_texture,
                          out.normal_map_texture} \ {<<>>}}

ReturnedImages == {material_images[1][i] : i \in DOMAIN material_images[1]}

\* C23: for a StandardMaterial or StrolleMaterial, images returns every image
\* the material into_material produces refers to: each of base_color_texture,
\* emissive_texture and normal_map_texture that is set in the converted
\* material is among the handles images returned.
C23_ImagesCoverConvertedMaterial ==
    (material_images # Empty /\ material_out # Empty)
        => ReferredImages \subseteq ReturnedImages

====
